---- MODULE Spec2Model ----
(***************************************************************************)
(* Model of the IMDb MCP server's response cache and request dispatcher:   *)
(* ResponseCache / CacheManager (src/src/cache.py), make_imdb_request      *)
(* (src/src/api.py, with the credential lookup of src/src/config.py or of  *)
(* src/src/imdb_mcp_server/api.py) and the single-file imdb_server.py.     *)
(*                                                                         *)
(* Two threads touch the store: the request thread (the event loop, which  *)
(* runs one make_imdb_request at a time because the coroutine never        *)
(* awaits) and the daemon thread started by CacheManager that runs         *)
(* clear_expired in a loop.  No lock guards the OrderedDict, so the        *)
(* Python-level steps of get / set / clear_expired of the two threads      *)
(* interleave; each action below is one such step.                         *)
(*                                                                         *)
(* Time.  The code uses a timestamp only in a difference with              *)
(* datetime.now(), so the model keeps the differences: an entry's age      *)
(* (now - timestamp), cleanup_age (now - last_cache_cleanup) and           *)
(* sleep_left (what remains of the sweep thread's time.sleep).  The clock  *)
(* unit is 300 s.  An age stops growing at MaxAge, above every threshold   *)
(* it is compared with.  Handler and sweep steps take less than one unit:  *)
(* the clock advances only while the request thread is idle or waiting     *)
(* for upstream and the sweep thread is asleep or gone.                    *)
(***************************************************************************)
EXTENDS Integers, Sequences, FiniteSets, TLC

\* ------------------------------------------------------------- parameters
MaxSize == 2            \* largest configured max_size explored
expiry_seconds == 2     \* ResponseCache(expiry_seconds=600), in clock units
cleanup_interval == 1   \* CacheManager(cleanup_interval_minutes=5), in clock units
SecondsPerDay == 288    \* one day, in clock units

\* Ages saturate here.
MaxAge == expiry_seconds + cleanup_interval + 1

Min(a, b) == IF a < b THEN a ELSE b
Max(a, b) == IF a > b THEN a ELSE b

VARIABLES
    variant,        \* which server runs: "modular" (src/src over stdio), "http"
                    \* (src/src behind SmitheryConfigMiddleware), "package"
                    \* (src/src/imdb_mcp_server) or "legacy" (imdb_server.py)
    max_size,       \* ResponseCache.max_size
    env_key,        \* RAPID_API_KEY_IMDB of the process ("" when unset)
    cache,          \* ResponseCache.cache: OrderedDict, first = least recently used
    cleanup_age,    \* datetime.now() - CacheManager.last_cache_cleanup
    pc,             \* position of each thread
    req,            \* locals of the running make_imdb_request
    sw,             \* locals of each thread's running clear_expired
    sleep_left,     \* what remains of the sweep thread's time.sleep
    uses,           \* history: stored keys ordered by their last use (get hit or set)
    prev,           \* history: the previous dispatcher call, if it fetched
    items,          \* paginated_response: the sequence passed
    start,          \* paginated_response: the start passed
    total_count,    \* paginated_response: the total_count passed, if any
    page,           \* paginated_response: the dict returned
    asked,          \* two (url, querystring) pairs a cache key is made for
    cache_key,      \* the cache keys made for them
    calls,          \* history: the keys of the set calls made on a store used alone
    interval,       \* CacheManager.cleanup_interval of a manager built with its own
    op,             \* the last call made on a store used alone, and what it gave
    walk            \* history of a walk through the pages: calls made, items got

\* What the dispatcher and the sweep thread never touch.
Aside == <<items, start, total_count, page, asked, cache_key, calls, interval,
           op, walk>>

vars == <<variant, max_size, env_key, cache, cleanup_age, pc, req, sw,
          sleep_left, uses, prev, Aside>>

Config == <<variant, max_size, env_key>>

Threads == {"req", "bg"}

\* ------------------------------------------------------------ Python values
\* A Python value as far as the dispatcher looks at it: its type, its len()
\* (what `if value:` tests for containers and strings) and its identity.
PyNone == [type |-> "None", size |-> 0, id |-> "None"]
PyStr(text) == [type |-> "str", size |-> 1, id |-> text]
PyList(n, id) == [type |-> "list", size |-> n, id |-> id]

\* bool(v): None, [] and {} are false.
Truthy(v) == v.size > 0

\* bool(api_key) for a credential string.
KeyTruthy(k) == k # ""

\* -------------------------------------------------------------- cache key
\* A repr() that quotes nothing.
ReprBare(v) == v.text

\* repr() of a parameter value: strings are quoted, numbers are not.
Repr(v) == IF v.type = "str" THEN <<"'">> \o v.text \o <<"'">> ELSE v.text

RECURSIVE JoinItems(_)
JoinItems(qs) ==
    IF qs = <<>> THEN <<>>
    ELSE LET it == Head(qs)
             one == <<"'">> \o it.name \o <<"'", ":", " ">> \o Repr(it.val)
         IN IF Len(qs) = 1 THEN one
            ELSE one \o <<",", " ">> \o JoinItems(Tail(qs))

\* str(querystring): the dict's items in insertion order.
StrDict(qs) == <<"{">> \o JoinItems(qs) \o <<"}">>

\* A key made of the url alone.
CacheKeyUrlOnly(url, qs) == url

\* cache_key = f"{url}_{str(querystring)}"
CacheKey(url, qs) == url \o <<"_">> \o StrDict(qs)

Param(n, v) == [name |-> n, val |-> [type |-> "str", text |-> v]]

\* The requests the tools issue here: one list endpoint, two searches.
TopRequest == [url |-> <<"/top250-movies">>, qs |-> <<>>]
SearchX == [url |-> <<"/search">>, qs |-> <<Param(<<"originalTitle">>, <<"x">>)>>]
SearchY == [url |-> <<"/search">>, qs |-> <<Param(<<"originalTitle">>, <<"y">>)>>]
Requests == {TopRequest, SearchX, SearchY}

\* The JSON body upstream answers a request with when it answers 200: the
\* same body for the same request.  The search for x matches nothing.
Body(url, qs) ==
    IF url = TopRequest.url THEN PyList(2, "top")
    ELSE IF qs = SearchX.qs THEN PyList(0, "[]")
    ELSE PyList(1, "y")

\* ------------------------------------------------------------ OrderedDict
Keys(c) == {c[i].key : i \in 1..Len(c)}
Contains(c, k) == k \in Keys(c)
IndexOf(c, k) == CHOOSE i \in 1..Len(c) : c[i].key = k
Entry(c, k) == c[IndexOf(c, k)]
Entries(c) == {c[i] : i \in 1..Len(c)}

\* del od[k]
DelItem(c, k) == SelectSeq(c, LAMBDA e : e.key # k)

\* A popitem that removes the most recently used entry.
PopItemLast(c) == SubSeq(c, 1, Len(c) - 1)

\* A popitem that removes nothing.
PopItemKeep(c) == c

\* od.popitem(last=False)
PopItem(c) == Tail(c)

\* An assignment that leaves a present key's value and timestamp alone.
SetItemNoOverwrite(c, k, data) ==
    IF k \in {c[i].key : i \in 1..Len(c)} THEN c
    ELSE Append(c, [key |-> k, age |-> 0, data |-> data])

\* od[k] = (datetime.now(), data): a present key keeps its position, a new
\* key goes last.  The new timestamp is now: age 0.
SetItem(c, k, data) ==
    LET e == [key |-> k, age |-> 0, data |-> data]
    IN IF Contains(c, k) THEN [c EXCEPT ![IndexOf(c, k)] = e] ELSE Append(c, e)

\* A move_to_end that stamps the entry anew.
MoveToEndTouch(c, k) == Append(SelectSeq(c, LAMBDA e : e.key # k), [c[CHOOSE i \in 1..Len(c) : c[i].key = k] EXCEPT !.age = 0])

\* A move_to_end that leaves the order alone.
MoveToEndNoop(c, k) == c

\* od.move_to_end(k)
MoveToEnd(c, k) == Append(DelItem(c, k), Entry(c, k))

\* timedelta.seconds: the seconds field of the interval, days dropped.
TimedeltaSeconds(d) == d % SecondsPerDay

\* ------------------------------------------------------------------ state
SwIdle == [pos |-> 0, dirty |-> FALSE, expired |-> <<>>, start |-> <<>>, clean |-> TRUE]

NoResult == [kind |-> "none", exc |-> "", value |-> PyNone]
Return(v) == [kind |-> "return", exc |-> "", value |-> v]
Raise(exc, text) == [kind |-> "raise", exc |-> exc, value |-> PyStr(text)]

NoEvict == [key |-> <<>>, age |-> 0]

\* found, got_age, hit, called, upstream, evicted and added are history: what
\* the lookup saw, whether the call was served from the store, whether it
\* called upstream and how that ended, which entry its set evicted and which
\* entries it added.
ReqIdle == [url |-> <<>>, qs |-> <<>>, per_req |-> "", api_key |-> "", key |-> <<>>,
            found |-> FALSE, got_age |-> 0, cached_data |-> PyNone, hit |-> FALSE,
            called |-> FALSE, upstream |-> "", data |-> PyNone, result |-> NoResult,
            evicted |-> NoEvict, added |-> {}]

NoPrev == [key |-> <<>>, age |-> 0]

\* total_count=None
NoTotal == [given |-> FALSE, val |-> 0]
Total(n) == [given |-> TRUE, val |-> n]

\* No call made on the store yet.
NoOp == [name |-> "", key |-> <<>>, data |-> PyNone, raised |-> FALSE]

\* No page asked for yet.
NoWalk == [calls |-> 0, got |-> <<>>]

\* No dict returned yet.
NoPage == [items |-> <<>>, start |-> 0, count |-> 0, totalCount |-> 0,
           hasMore |-> FALSE, nextStart |-> [none |-> TRUE, val |-> 0],
           returned |-> FALSE]

Start ==
    /\ max_size \in 1..MaxSize
    /\ env_key \in {"", "envkey"}
    /\ cache = <<>>
    /\ cleanup_age = 0
    /\ pc = [t \in Threads |-> IF t = "req" THEN "idle" ELSE "sleep"]
    /\ req = ReqIdle
    /\ sw = [t \in Threads |-> SwIdle]
    /\ sleep_left = TimedeltaSeconds(cleanup_interval)
    /\ uses = <<>>
    /\ prev = NoPrev

\* No paginated_response call, no cache key made, no store used alone.
AsideIdle ==
    /\ items = <<>>
    /\ start = 0
    /\ total_count = NoTotal
    /\ page = NoPage
    /\ asked = <<>>
    /\ cache_key = <<>>
    /\ calls = <<>>
    /\ interval = cleanup_interval
    /\ op = NoOp
    /\ walk = NoWalk

Init == variant \in {"modular", "http", "package", "legacy"} /\ Start /\ AsideIdle

\* History bookkeeping of `uses`.
Use(u, k) == Append(SelectSeq(u, LAMBDA x : x # k), k)
Forget(u, k) == SelectSeq(u, LAMBDA x : x # k)

\* A thread's change of the store as the other thread's running clear_expired
\* sees it: a structural change (a node added, removed or moved) invalidates a
\* live OrderedDict iterator, which raises at its next step.
Disturbed(s, t, structural) ==
    [u \in Threads |->
        IF u # t /\ pc[u] \in {"ce_scan", "ce_del"}
        THEN [s[u] EXCEPT !.dirty = @ \/ (structural /\ pc[u] = "ce_scan"),
                          !.clean = FALSE, !.start = <<>>]
        ELSE s[u]]

\* An exception that nothing catches in thread t: the sweep thread ends, the
\* request's call raises it.
Throw(t, exc, text) ==
    /\ pc' = [pc EXCEPT ![t] = IF t = "bg" THEN "dead" ELSE "raised"]
    /\ sw' = [sw EXCEPT ![t] = SwIdle]
    /\ req' = IF t = "req" THEN [req EXCEPT !.result = Raise(exc, text)] ELSE req

\* How the dispatcher reports a failure: src/src raises ValueError, the
\* single-file imdb_server.py returns the message as the call's value.
Failure(text) ==
    IF variant = "legacy" THEN Return(PyStr(text)) ELSE Raise("ValueError", text)

Fail(text) ==
    /\ req' = [req EXCEPT !.result = Failure(text)]
    /\ pc' = [pc EXCEPT !.req = IF variant = "legacy" THEN "done" ELSE "raised"]

\* --------------------------------------------------------- clear_expired
\* now = datetime.now(); the comprehension creates the items() iterator.
BeginSweep(t) ==
    /\ sw' = [sw EXCEPT ![t] = [pos |-> IF cache = <<>> THEN 0 ELSE 1,
                                dirty |-> FALSE, expired |-> <<>>,
                                start |-> cache, clean |-> TRUE]]
    /\ pc' = [pc EXCEPT ![t] = IF cache = <<>> THEN "ce_del" ELSE "ce_scan"]

\* An expiry test that nothing passes.
IsExpiredNever(age) == FALSE

\* An expiry test that is one clock unit early.
IsExpiredEarly(age) == age >= expiry_seconds - 1

\* if now - timestamp >= timedelta(seconds=self.expiry_seconds)
IsExpired(age) == age >= expiry_seconds

\* One iteration of the comprehension: the next item, kept when expired.
CeScanNext(t) ==
    /\ pc[t] = "ce_scan"
    /\ ~sw[t].dirty
    /\ LET e == cache[sw[t].pos]
           last == sw[t].pos = Len(cache)
       IN /\ sw' = [sw EXCEPT ![t].expired =
                                 IF IsExpired(e.age) THEN Append(@, e.key) ELSE @,
                              ![t].pos = IF last THEN 0 ELSE @ + 1]
          /\ pc' = [pc EXCEPT ![t] = IF last THEN "ce_del" ELSE "ce_scan"]
    /\ UNCHANGED <<Config, Aside, cache, cleanup_age, req, sleep_left, uses, prev>>

\* RuntimeError: OrderedDict mutated during iteration.
CeScanMutated(t) ==
    /\ pc[t] = "ce_scan"
    /\ sw[t].dirty
    /\ Throw(t, "RuntimeError", "OrderedDict mutated during iteration")
    /\ UNCHANGED <<Config, Aside, cache, cleanup_age, sleep_left, uses, prev>>

\* del self.cache[key] for the next expired key.
CeDelItem(t) ==
    /\ pc[t] = "ce_del"
    /\ sw[t].expired # <<>>
    /\ LET k == Head(sw[t].expired)
       IN /\ Contains(cache, k)
          /\ cache' = DelItem(cache, k)
          /\ uses' = Forget(uses, k)
          /\ sw' = Disturbed([sw EXCEPT ![t].expired = Tail(@)], t, TRUE)
    /\ UNCHANGED <<Config, Aside, cleanup_age, pc, req, sleep_left, prev>>

\* KeyError: the key left the store after the scan listed it.
CeDelMissing(t) ==
    /\ pc[t] = "ce_del"
    /\ sw[t].expired # <<>>
    /\ ~Contains(cache, Head(sw[t].expired))
    /\ Throw(t, "KeyError", "expired key")
    /\ UNCHANGED <<Config, Aside, cache, cleanup_age, sleep_left, uses, prev>>

\* A sweep thread that writes last_cache_cleanup too.
LastCleanupAlways(t, age) == 0

\* now - last_cache_cleanup once thread t's clear_expired has returned: only
\* cleanup_if_needed, on the request thread, assigns last_cache_cleanup.
LastCleanupAfter(t, age) == IF t = "bg" THEN age ELSE 0

\* clear_expired returns.  The sweep thread prints and sleeps again; the
\* request thread sets last_cache_cleanup = datetime.now() and goes on to
\* the lookup.
CeReturn(t) ==
    /\ pc[t] = "ce_del"
    /\ sw[t].expired = <<>>
    /\ sw' = [sw EXCEPT ![t] = SwIdle]
    /\ IF t = "bg"
       THEN /\ pc' = [pc EXCEPT ![t] = "sleep"]
            /\ sleep_left' = TimedeltaSeconds(cleanup_interval)
       ELSE /\ pc' = [pc EXCEPT ![t] = "get_in"]
            /\ UNCHANGED sleep_left
    /\ cleanup_age' = LastCleanupAfter(t, cleanup_age)
    /\ UNCHANGED <<Config, Aside, cache, req, uses, prev>>

\* ------------------------------------------------------ the sweep thread
\* time.sleep(self.cleanup_interval.seconds) is over: self.cache.clear_expired()
BgWake ==
    /\ pc["bg"] = "sleep"
    /\ sleep_left = 0
    /\ BeginSweep("bg")
    /\ UNCHANGED <<Config, Aside, cache, cleanup_age, req, sleep_left, uses, prev>>

\* --------------------------------------------------- make_imdb_request
\* Credentials a caller can supply with the request ("" when it supplies none).
PerRequestKeys == {"", "reqkey"}

\* A request carries a rapidApiKeyImdb of its own only over HTTP: in the ASGI
\* scope's smithery_config (src/src) or in ctx.session_config (the package).
Supplied == IF variant \in {"http", "package"} THEN PerRequestKeys ELSE {""}

\* A tool calls make_imdb_request(url, querystring), for a caller whose
\* request carries the credential k.
StartRequest ==
    /\ pc["req"] = "idle"
    /\ \E r \in Requests, k \in Supplied :
          req' = [ReqIdle EXCEPT !.url = r.url, !.qs = r.qs, !.per_req = k]
    /\ pc' = [pc EXCEPT !.req = "cleanup"]
    /\ UNCHANGED <<Config, Aside, cache, cleanup_age, sw, sleep_left, uses, prev>>

\* A lazy cleanup that is never due.
CleanupNever(age) == FALSE

\* if datetime.now() - self.last_cache_cleanup > self.cleanup_interval
CleanupDue(age) == age > cleanup_interval

\* cache_manager.cleanup_if_needed(): starts the lazy sweep, or skips it.
CleanupIfNeeded ==
    /\ pc["req"] = "cleanup"
    /\ IF CleanupDue(cleanup_age)
       THEN BeginSweep("req")
       ELSE /\ pc' = [pc EXCEPT !.req = "get_in"]
            /\ UNCHANGED sw
    /\ UNCHANGED <<Config, Aside, cache, cleanup_age, req, sleep_left, uses, prev>>

\* cache_key = ...; get: `if key in self.cache`, else return None.
GetIn ==
    /\ pc["req"] = "get_in"
    /\ LET k == CacheKey(req.url, req.qs)
       IN /\ req' = [req EXCEPT !.key = k, !.found = Contains(cache, k)]
          /\ pc' = [pc EXCEPT !.req = IF Contains(cache, k) THEN "get_read" ELSE "cred"]
    /\ UNCHANGED <<Config, Aside, cache, cleanup_age, sw, sleep_left, uses, prev>>

\* get: `_, data = self.cache[key]`
GetRead ==
    /\ pc["req"] = "get_read"
    /\ Contains(cache, req.key)
    /\ req' = [req EXCEPT !.cached_data = Entry(cache, req.key).data,
                          !.got_age = Entry(cache, req.key).age]
    /\ pc' = [pc EXCEPT !.req = "get_move"]
    /\ UNCHANGED <<Config, Aside, cache, cleanup_age, sw, sleep_left, uses, prev>>

\* get: KeyError, the sweep thread deleted the key after the `in` test.
GetKeyError ==
    /\ pc["req"] \in {"get_read", "get_move"}
    /\ ~Contains(cache, req.key)
    /\ Throw("req", "KeyError", "cache key")
    /\ UNCHANGED <<Config, Aside, cache, cleanup_age, sleep_left, uses, prev>>

\* A hit only for a caller whose request carries a credential.
IsHitWithCredential(cached_data) == Truthy(cached_data) /\ req.per_req # ""

\* `if cached_data:` decides whether the lookup counts as a hit.
IsHit(cached_data) == Truthy(cached_data)

\* get: self.cache.move_to_end(key); return data.  Then `if cached_data: return`.
GetMove ==
    /\ pc["req"] = "get_move"
    /\ Contains(cache, req.key)
    /\ cache' = MoveToEnd(cache, req.key)
    /\ uses' = Use(uses, req.key)
    /\ sw' = Disturbed(sw, "req", cache' # cache)
    /\ IF IsHit(req.cached_data)
       THEN /\ req' = [req EXCEPT !.result = Return(req.cached_data), !.hit = TRUE]
            /\ pc' = [pc EXCEPT !.req = "done"]
       ELSE /\ req' = [req EXCEPT !.got_age = 0]
            /\ pc' = [pc EXCEPT !.req = "cred"]
    /\ UNCHANGED <<Config, Aside, cleanup_age, sleep_left, prev>>

\* get_request_config(): copy_context().get('request') raises TypeError (a
\* Context takes ContextVar keys, not a str), the except clause prints it
\* and {} is returned, whatever smithery_config the request's scope holds.
\* The value of 'rapidApiKeyImdb' in the result: none.
GetRequestConfig(scope_key) == ""

\* get_config_value('rapidApiKeyImdb'): nothing ever calls set_thread_config,
\* so the thread-local config is unset and the request's config is asked.
GetConfigValue(scope_key) == GetRequestConfig(scope_key)

\* _api_key: handle_config stores the environment's key when the server
\* starts over stdio; the HTTP branch never calls it and _api_key stays None.
StoredApiKey(env) == IF variant = "http" THEN "" ELSE env

\* get_api_key(): get_config_value('rapidApiKeyImdb') or self._api_key
GetApiKey(scope_key, env) ==
    IF KeyTruthy(GetConfigValue(scope_key)) THEN GetConfigValue(scope_key)
    ELSE StoredApiKey(env)

\* imdb_mcp_server: ctx.session_config.rapidApiKeyImdb, else
\* os.getenv("RAPID_API_KEY_IMDB").
SessionApiKey(session_key, env) ==
    IF KeyTruthy(session_key) THEN session_key ELSE env

\* The credential the dispatcher resolves; imdb_server.py reads the
\* environment only.
ApiKey(per_req, env) ==
    IF variant = "legacy" THEN env
    ELSE IF variant = "package" THEN SessionApiKey(per_req, env)
    ELSE GetApiKey(per_req, env)

\* `if not api_key: raise ValueError("API key not found ...")`, else the
\* request goes out: requests.get(url, headers, params, timeout=30.0) with
\* api_key in the x-rapidapi-key header.
Credential ==
    /\ pc["req"] = "cred"
    /\ LET api_key == ApiKey(req.per_req, env_key)
       IN IF ~KeyTruthy(api_key)
          THEN Fail("API key not found")
          ELSE /\ req' = [req EXCEPT !.called = TRUE, !.api_key = api_key]
               /\ pc' = [pc EXCEPT !.req = "http"]
    /\ UNCHANGED <<Config, Aside, cache, cleanup_age, sw, sleep_left, uses, prev>>

\* What upstream can do with a request: the connection fails or times out,
\* or a status comes back with a body that is JSON or is not.
Responses(url, qs) ==
    [conn : {"error", "timeout"}, status : {0}, json : {FALSE}, body : {PyNone}]
    \cup [conn : {"ok"}, status : {404, 500}, json : {TRUE}, body : {PyList(0, "[]")}]
    \cup [conn : {"ok"}, status : {200}, json : {FALSE}, body : {PyNone}]
    \cup [conn : {"ok"}, status : {200}, json : {TRUE}, body : {Body(url, qs)}]

\* A fetch in which nothing raises.
FetchRaisesNever(r) == FALSE

\* A fetch that forgets raise_for_status().
FetchRaisesNoStatus(r) == r.conn # "ok" \/ ~r.json

\* The try block up to `data = response.json()` raises: requests.get on a
\* transport error or timeout, raise_for_status on a non-2xx status, json()
\* on a body that does not parse.
FetchRaises(r) ==
    \/ r.conn # "ok"
    \/ r.status \notin 200..299
    \/ ~r.json

\* The failure kinds of an upstream call: a transport error, a timeout, a
\* non-2xx status, a body that is not JSON.
UpstreamFailure(r) == r.conn \in {"error", "timeout"} \/ r.status # 200 \/ ~r.json

\* The upstream call returns; `except Exception` turns a failure into the
\* dispatcher's error.
HttpReturn ==
    /\ pc["req"] = "http"
    /\ \E r \in Responses(req.url, req.qs) :
          LET outcome == IF UpstreamFailure(r) THEN "failed" ELSE "ok"
          IN IF FetchRaises(r)
             THEN /\ req' = [req EXCEPT !.result = Failure("Unable to fetch data from IMDb"),
                                        !.upstream = outcome]
                  /\ pc' = [pc EXCEPT !.req = IF variant = "legacy" THEN "done" ELSE "raised"]
             ELSE /\ req' = [req EXCEPT !.data = r.body, !.upstream = outcome]
                  /\ pc' = [pc EXCEPT !.req = "set_len"]
    /\ UNCHANGED <<Config, Aside, cache, cleanup_age, sw, sleep_left, uses, prev>>

\* An eviction test that is off by one.
MustEvictLate(c, limit) == Len(c) > limit

\* set: `if len(self.cache) >= self.max_size`
MustEvict(c, limit) == Len(c) >= limit

SetLen ==
    /\ pc["req"] = "set_len"
    /\ pc' = [pc EXCEPT !.req = IF MustEvict(cache, max_size) THEN "set_pop" ELSE "set_store"]
    /\ UNCHANGED <<Config, Aside, cache, cleanup_age, req, sw, sleep_left, uses, prev>>

\* set: self.cache.popitem(last=False)
SetPop ==
    /\ pc["req"] = "set_pop"
    /\ cache # <<>>
    /\ cache' = PopItem(cache)
    /\ uses' = SelectSeq(uses, LAMBDA k : Contains(cache', k))
    /\ sw' = Disturbed(sw, "req", TRUE)
    /\ req' = [req EXCEPT !.evicted = [key |-> Head(cache).key, age |-> Head(cache).age]]
    /\ pc' = [pc EXCEPT !.req = "set_store"]
    /\ UNCHANGED <<Config, Aside, cleanup_age, sleep_left, prev>>

\* set: popitem on a store the sweep thread emptied after the len test raises
\* KeyError inside the dispatcher's try block.
SetPopEmpty ==
    /\ pc["req"] = "set_pop"
    /\ cache = <<>>
    /\ Fail("Unable to fetch data from IMDb")
    /\ UNCHANGED <<Config, Aside, cache, cleanup_age, sw, sleep_left, uses, prev>>

\* set: self.cache[key] = (datetime.now(), data)
SetStore ==
    /\ pc["req"] = "set_store"
    /\ cache' = SetItem(cache, req.key, req.data)
    /\ uses' = Use(uses, req.key)
    /\ sw' = Disturbed(sw, "req", ~Contains(cache, req.key))
    /\ req' = [req EXCEPT !.added = Entries(cache') \ Entries(cache)]
    /\ pc' = [pc EXCEPT !.req = "set_move"]
    /\ UNCHANGED <<Config, Aside, cleanup_age, sleep_left, prev>>

\* set: self.cache.move_to_end(key); then `return data`.
SetMove ==
    /\ pc["req"] = "set_move"
    /\ Contains(cache, req.key)
    /\ cache' = MoveToEnd(cache, req.key)
    /\ sw' = Disturbed(sw, "req", cache' # cache)
    /\ req' = [req EXCEPT !.result = Return(req.data)]
    /\ pc' = [pc EXCEPT !.req = "done"]
    /\ UNCHANGED <<Config, Aside, cleanup_age, sleep_left, uses, prev>>

\* set: move_to_end raises KeyError, the sweep thread deleted the key that was
\* just stored; inside the try block.
SetMoveMissing ==
    /\ pc["req"] = "set_move"
    /\ ~Contains(cache, req.key)
    /\ Fail("Unable to fetch data from IMDb")
    /\ UNCHANGED <<Config, Aside, cache, cleanup_age, sw, sleep_left, uses, prev>>

\* Whether the call that ends fetched its value from upstream.
Fetched == req.called /\ pc["req"] = "done" /\ req.result = Return(req.data)

\* The call has returned or raised; the event loop takes the next one.
Finish ==
    /\ pc["req"] \in {"done", "raised"}
    /\ prev' = IF Fetched THEN [key |-> req.key, age |-> 0] ELSE NoPrev
    /\ req' = ReqIdle
    /\ pc' = [pc EXCEPT !.req = "idle"]
    /\ UNCHANGED <<Config, Aside, cache, cleanup_age, sw, sleep_left, uses>>

\* json.dumps(paginated_response(data, start, len(data))): the payload made
\* of the value the dispatcher returned.
Payload(v) == [type |-> "json", size |-> v.size, id |-> v.id]

\* What a tool answers when the dispatcher returns nothing to show.
UnableText == PyStr("Unable to fetch data")

\* The tool around the dispatcher call: nothing catches what
\* make_imdb_request raises; `if not data: return "Unable to fetch ..."`;
\* else the value is paginated and serialized.
ToolReply(result) ==
    IF result.kind = "raise" THEN result
    ELSE IF ~Truthy(result.value) THEN Return(UnableText)
    ELSE Return(Payload(result.value))

\* One clock unit passes.
Tick ==
    /\ pc["req"] \in {"idle", "http"}
    /\ pc["bg"] \in {"sleep", "dead"}
    /\ cache' = [i \in 1..Len(cache) |-> [cache[i] EXCEPT !.age = Min(@ + 1, MaxAge)]]
    /\ cleanup_age' = Min(cleanup_age + 1, cleanup_interval + 1)
    /\ sleep_left' = Max(sleep_left - 1, 0)
    /\ prev' = IF prev # NoPrev /\ prev.age + 1 < expiry_seconds
               THEN [prev EXCEPT !.age = @ + 1] ELSE NoPrev
    /\ UNCHANGED <<Config, Aside, pc, req, sw, uses>>

Next ==
    \/ StartRequest
    \/ CleanupIfNeeded
    \/ GetIn
    \/ GetRead
    \/ GetKeyError
    \/ GetMove
    \/ Credential
    \/ HttpReturn
    \/ SetLen
    \/ SetPop
    \/ SetPopEmpty
    \/ SetStore
    \/ SetMove
    \/ SetMoveMissing
    \/ Finish
    \/ BgWake
    \/ \E t \in Threads : CeScanNext(t)
    \/ \E t \in Threads : CeScanMutated(t)
    \/ \E t \in Threads : CeDelItem(t)
    \/ \E t \in Threads : CeDelMissing(t)
    \/ \E t \in Threads : CeReturn(t)
    \/ Tick

Spec == Init /\ [][Next]_vars

\* ----------------------------------------------------- paginated_response
MaxItems == 24          \* longest sequence paginated
StartSlack == 2         \* how far below 0 and beyond the end a start is tried
TotalSlack == 1         \* how far an explicit total_count is from len(items)

\* page_size = 5
page_size == 5

\* The list [0, 1, ..., n-1].
Range(n) == [i \in 1..n |-> i - 1]

\* if total_count is None: total_count = len(items)
DefaultTotal(its, tc) == IF tc.given THEN tc.val ELSE Len(its)

\* A clamp without the ceiling at total_count - 1.
ClampStartNoCeiling(total, st) == Max(0, st)

\* A clamp without the floor at 0.
ClampStartNoFloor(total, st) == Min(IF total > 0 THEN total - 1 ELSE 0, st)

\* start = max(0, min(total_count - 1 if total_count > 0 else 0, start))
ClampStart(total, st) == Max(0, Min(IF total > 0 THEN total - 1 ELSE 0, st))

\* An end that is not capped at total_count.
PageEndUncapped(st, total) == st + page_size

\* end = min(start + page_size, total_count)
PageEnd(st, total) == Min(st + page_size, total)

\* A slice bound as Python reads it on a sequence of length n: a negative
\* bound counts from the end, and the bound is clipped into 0..n.
SliceBound(n, i) == IF i < 0 THEN Max(i + n, 0) ELSE Min(i, n)

\* s[lo:hi]
Slice(s, lo, hi) ==
    LET a == SliceBound(Len(s), lo)
        b == SliceBound(Len(s), hi)
    IN IF a < b THEN SubSeq(s, a + 1, b) ELSE <<>>

\* "hasMore": end < total_count
HasMore(end, total) == end < total

PyInt(n) == [none |-> FALSE, val |-> n]
PyNoInt == [none |-> TRUE, val |-> 0]

\* A nextStart that skips an item.
NextStartSkip(end, total) == IF end < total THEN PyInt(end + 1) ELSE PyNoInt

\* A nextStart given also when end has reached total_count.
NextStartAtEnd(end, total) == IF end <= total THEN PyInt(end) ELSE PyNoInt

\* "nextStart": end if end < total_count else None
NextStart(end, total) == IF end < total THEN PyInt(end) ELSE PyNoInt

PaginatedResponse(its, st, tc) ==
    LET total == DefaultTotal(its, tc)
        s == ClampStart(total, st)
        end == PageEnd(s, total)
    IN [items |-> Slice(its, s, end),
        start |-> s,
        count |-> end - s,
        totalCount |-> total,
        hasMore |-> HasMore(end, total),
        nextStart |-> NextStart(end, total),
        returned |-> TRUE]

\* The arguments of a call: a list, a start below, inside or beyond it, and
\* total_count left out or given, as the tools give it (len(items)) or near it.
PageInit ==
    /\ variant = "modular" /\ max_size = MaxSize /\ env_key = "" /\ Start
    /\ \E n \in 0..MaxItems :
          /\ items = Range(n)
          /\ total_count \in {NoTotal}
                \cup {Total(k) : k \in Max(n - TotalSlack, 0)..(n + TotalSlack)}
    /\ start \in (0 - StartSlack)..(MaxItems + StartSlack)
    /\ page = NoPage
    /\ asked = <<>>
    /\ cache_key = <<>>
    /\ calls = <<>>
    /\ interval = cleanup_interval
    /\ op = NoOp
    /\ walk = NoWalk

\* paginated_response(items, start, total_count) returns.
Paginate ==
    /\ ~page.returned
    /\ page' = PaginatedResponse(items, start, total_count)
    /\ UNCHANGED <<Config, cache, cleanup_age, pc, req, sw, sleep_left, uses, prev,
                   items, start, total_count, asked, cache_key, calls, interval,
                   op, walk>>

PageNext == Paginate

PageSpec == PageInit /\ [][PageNext]_vars

\* --------------------------------------------- a walk through the pages
\* The caller of a paginated tool starts at 0 and asks again with the
\* nextStart it was given, until it is given none.  The tool passes the data
\* and len(data); total_count left out is len(items) too.
WalkInit ==
    /\ variant = "modular" /\ max_size = MaxSize /\ env_key = "" /\ Start
    /\ \E n \in 0..MaxItems :
          /\ items = Range(n)
          /\ total_count \in {NoTotal, Total(n)}
    /\ start = 0
    /\ page = NoPage
    /\ asked = <<>>
    /\ cache_key = <<>>
    /\ calls = <<>>
    /\ interval = cleanup_interval
    /\ op = NoOp
    /\ walk = NoWalk

\* The next call of the walk returns.
WalkPage ==
    /\ ~page.returned \/ ~page.nextStart.none
    /\ start' = IF page.returned THEN page.nextStart.val ELSE start
    /\ page' = PaginatedResponse(items, start', total_count)
    /\ walk' = [calls |-> walk.calls + 1, got |-> walk.got \o page'.items]
    /\ UNCHANGED <<Config, cache, cleanup_age, pc, req, sw, sleep_left, uses, prev,
                   items, total_count, asked, cache_key, calls, interval, op>>

WalkNext == WalkPage

WalkSpec == WalkInit /\ [][WalkNext]_vars

\* ------------------------------------------- a ResponseCache used alone
MaxCalls == 4           \* longest sequence of calls on the store

StoreKeys == {<<"a">>, <<"b">>, <<"c">>, <<"d">>}

\* A set that evicts only for a key the store does not hold.
SetDedup(c, limit, k, data) ==
    LET popped == IF MustEvict(c, limit) /\ ~Contains(c, k) THEN PopItem(c) ELSE c
    IN MoveToEnd(SetItem(popped, k, data), k)

\* set(key, data) run from its first line to its last by one thread.
Set(c, limit, k, data) ==
    LET popped == IF MustEvict(c, limit) THEN PopItem(c) ELSE c
    IN MoveToEnd(SetItem(popped, k, data), k)

\* ResponseCache(max_size): an empty store.
StoreInit == variant = "modular" /\ env_key = "" /\ Start /\ AsideIdle

\* The values stored.
StoreValues == {PyList(1, "v"), PyList(1, "w")}

\* set raises: popitem(last=False) on an empty OrderedDict is a KeyError.
SetRaises(c, limit) == MustEvict(c, limit) /\ c = <<>>

\* cache.set(k, data)
StoreSet ==
    /\ Len(calls) < MaxCalls
    /\ \E k \in StoreKeys, v \in StoreValues :
          /\ calls' = Append(calls, k)
          /\ op' = [name |-> "set", key |-> k, data |-> v,
                    raised |-> SetRaises(cache, max_size)]
          /\ IF SetRaises(cache, max_size)
             THEN UNCHANGED <<cache, uses>>
             ELSE /\ cache' = Set(cache, max_size, k, v)
                  /\ uses' = Use(SelectSeq(uses, LAMBDA u : Contains(cache', u)), k)
    /\ UNCHANGED <<Config, cleanup_age, pc, req, sw, sleep_left, prev,
                   items, start, total_count, page, asked, cache_key, interval, walk>>

\* The store after get(key): a key that is found is moved to the end.
Get(c, k) == IF Contains(c, k) THEN MoveToEnd(c, k) ELSE c

\* What get(key) returns: the data stored, None for a key that is not found.
GetValue(c, k) == IF Contains(c, k) THEN Entry(c, k).data ELSE PyNone

\* cache.get(k)
StoreGet ==
    /\ \E k \in StoreKeys :
          /\ cache' = Get(cache, k)
          /\ uses' = IF Contains(cache, k) THEN Use(uses, k) ELSE uses
          /\ op' = [name |-> "get", key |-> k, data |-> GetValue(cache, k),
                    raised |-> FALSE]
    /\ UNCHANGED <<Config, cleanup_age, pc, req, sw, sleep_left, prev,
                   items, start, total_count, page, asked, cache_key, calls,
                   interval, walk>>

StoreNext == StoreSet \/ StoreGet

StoreSpec == StoreInit /\ [][StoreNext]_vars

\* ------------------------------------------------- cache keys of requests
KeyUrls == {<<"/search">>, <<"/top250-movies">>}
ParamNames == {<<"type">>, <<"genre">>}

\* Parameter values: two strings and an int.
ParamValues == {[type |-> "str", text |-> <<"movie">>],
                [type |-> "str", text |-> <<"5">>],
                [type |-> "int", text |-> <<"5">>]}

Params == [name : ParamNames, val : ParamValues]

\* The querystring dicts over these names: their items in insertion order.
QueryStrings ==
    {<<>>} \cup {<<a>> : a \in Params}
           \cup {q \in Params \X Params : q[1].name # q[2].name}

\* Two calls make_imdb_request(url, querystring) are about to make their keys.
KeyInit ==
    /\ variant = "modular" /\ max_size = MaxSize /\ env_key = "" /\ Start
    /\ asked \in [url : KeyUrls, qs : QueryStrings] \X [url : KeyUrls, qs : QueryStrings]
    /\ cache_key = <<>>
    /\ items = <<>>
    /\ start = 0
    /\ total_count = NoTotal
    /\ page = NoPage
    /\ calls = <<>>
    /\ interval = cleanup_interval
    /\ op = NoOp
    /\ walk = NoWalk

\* cache_key = f"{url}_{str(querystring)}", in both calls.
MakeKeys ==
    /\ cache_key = <<>>
    /\ cache_key' = <<CacheKey(asked[1].url, asked[1].qs),
                      CacheKey(asked[2].url, asked[2].qs)>>
    /\ UNCHANGED <<Config, cache, cleanup_age, pc, req, sw, sleep_left, uses, prev,
                   items, start, total_count, page, asked, calls, interval,
                   op, walk>>

KeyNext == MakeKeys

KeySpec == KeyInit /\ [][KeyNext]_vars

\* ------------------------------- a CacheManager built with its own interval
MaxInterval == 300      \* longest cleanup interval configured, in clock units

\* CacheManager(cleanup_interval_minutes=m): the thread is started and has
\* not slept yet.
SleepInit ==
    /\ variant = "modular" /\ max_size = MaxSize /\ env_key = ""
    /\ cache = <<>>
    /\ cleanup_age = 0
    /\ pc = [t \in Threads |-> IF t = "req" THEN "idle" ELSE "start"]
    /\ req = ReqIdle
    /\ sw = [t \in Threads |-> SwIdle]
    /\ sleep_left = 0
    /\ uses = <<>>
    /\ prev = NoPrev
    /\ items = <<>>
    /\ start = 0
    /\ total_count = NoTotal
    /\ page = NoPage
    /\ asked = <<>>
    /\ cache_key = <<>>
    /\ calls = <<>>
    /\ interval \in 1..MaxInterval
    /\ op = NoOp
    /\ walk = NoWalk

\* clear_cache_periodically: time.sleep(self.cleanup_interval.seconds) begins.
BgSleep ==
    /\ pc["bg"] = "start"
    /\ pc' = [pc EXCEPT !.bg = "sleep"]
    /\ sleep_left' = TimedeltaSeconds(interval)
    /\ UNCHANGED <<Config, Aside, cache, cleanup_age, req, sw, uses, prev>>

SleepNext == BgSleep

SleepSpec == SleepInit /\ [][SleepNext]_vars

\* ================================================================= claims
KeyTop == CacheKey(TopRequest.url, TopRequest.qs)
KeyX == CacheKey(SearchX.url, SearchX.qs)
KeyY == CacheKey(SearchY.url, SearchY.qs)

\* C1: the store never holds more than max_size entries, whatever get, set
\* and clear_expired steps the two threads have taken.
C1_SizeWithinMax == Len(cache) <= max_size

\* A set on a full store has evicted and returned, and the store is full again.
C1_Witness ==
    /\ pc["req"] = "done"
    /\ req.evicted # NoEvict
    /\ req.added # {}
    /\ Len(cache) = max_size

\* The stored key whose last use (get hit or set) is the oldest.
LeastRecentlyUsed == Head(SelectSeq(uses, LAMBDA k : Contains(cache, k)))

\* C2: the popitem step of set removes exactly the least recently used
\* entry, a use being a get hit or a set of the key.
C2_EvictsLeastRecentlyUsed ==
    [][(pc["req"] = "set_pop" /\ pc'["req"] = "set_store")
        => Keys(cache) \ Keys(cache') = {LeastRecentlyUsed}]_vars

\* max_size = 2; set(top); set(y); get(top); set(x): y was evicted although
\* it was stored after top, and top is kept.
C2_Witness ==
    /\ max_size = 2
    /\ pc["req"] = "done"
    /\ req.key = KeyX
    /\ req.evicted.key = KeyY
    /\ Len(cache) = 2
    /\ cache[1].key = KeyTop
    /\ cache[1].age > req.evicted.age

\* The entries of c younger than expiry_seconds, in c's order.
Young(c) == SelectSeq(c, LAMBDA e : e.age < expiry_seconds)

\* The step of thread t ends a clear_expired: it returns or raises.
EndsSweep(t) == pc[t] \in {"ce_scan", "ce_del"} /\ pc'[t] \notin {"ce_scan", "ce_del"}

\* C3: when a clear_expired ends, the store holds no entry of age
\* expiry_seconds or more, and if no other thread changed the store meanwhile
\* it holds exactly the entries of its start that are younger, with their
\* values, timestamps and order.
C3_ClearExpiredExact ==
    [][\A t \in Threads :
          EndsSweep(t) =>
              /\ \A e \in Entries(cache') : ~IsExpired(e.age)
              /\ sw[t].clean => cache' = Young(sw[t].start)]_vars

\* A clear_expired that ran to its end with no other thread changing the
\* store meanwhile leaves exactly the younger entries of its start.
UndisturbedSweepExact ==
    \A t \in Threads :
        (pc[t] = "ce_del" /\ sw[t].expired = <<>> /\ sw[t].clean)
            => cache = Young(sw[t].start)

\* A sweep of the sweep thread has removed an entry of age expiry_seconds and
\* kept one a unit younger.
UndisturbedSweepSeen ==
    /\ pc["bg"] = "ce_del"
    /\ sw["bg"].expired = <<>>
    /\ sw["bg"].clean
    /\ \E e \in Entries(sw["bg"].start) : e.age = expiry_seconds
    /\ \E e \in Entries(cache) : e.age = expiry_seconds - 1

\* C4: when the lookup finds the request's key in the store, the call is
\* served that entry's value and goes neither to the credential nor upstream.
C4_StoredEntryServed ==
    req.found =>
        \/ pc["req"] \in {"get_read", "get_move"}
        \/ pc["req"] = "done" /\ req.hit /\ ~req.called

\* C5: a call for the key the previous call fetched, made while that fetch is
\* younger than expiry_seconds, makes no upstream call.
C5_SecondCallFromCache ==
    (prev # NoPrev /\ req.key = prev.key) => ~req.called

\* C6: a call served from the store is served an entry no older than
\* cleanup_interval + expiry_seconds, whether or not the sweep thread runs.
C6_ServedAgeBounded ==
    (pc["req"] = "done" /\ req.hit) => req.got_age <= cleanup_interval + expiry_seconds

\* The sweep thread has never swept (it still sleeps its first sleep) and a
\* call is served an entry that has reached expiry_seconds.
C6_Witness ==
    /\ pc["req"] = "done"
    /\ req.hit
    /\ req.got_age >= expiry_seconds
    /\ pc["bg"] = "sleep"
    /\ sleep_left > 0

\* The call ended with the dispatcher's missing-credential failure.
MissingCredential == req.result.value = PyStr("API key not found")

\* C7: a call that resolves no credential raises, and has called upstream
\* zero times.
C7_MissingCredentialRaises ==
    MissingCredential => (req.result.kind = "raise" /\ ~req.called)

\* The call ended in failure: it raised, or (imdb_server.py) returned one of
\* the dispatcher's error messages, or its upstream call failed.
CallFailed ==
    /\ pc["req"] \in {"done", "raised"}
    /\ \/ req.result.kind = "raise"
       \/ req.result.value.type = "str"
       \/ req.upstream = "failed"

\* C8: a call that failed has left no entry in the store that it added, and
\* when its lookup found no entry for its key the store still holds none, so
\* the next call for the key misses too.
C8_FailuresNeverCached ==
    CallFailed =>
        /\ req.added \cap Entries(cache) = {}
        /\ (req.key # <<>> /\ ~req.found) => ~Contains(cache, req.key)

\* An upstream call failed while the store holds an entry of an earlier call.
C8_Witness ==
    /\ CallFailed
    /\ req.upstream = "failed"
    /\ ~req.found
    /\ cache # <<>>

\* C9: the sweep thread never ends: no exception of a sweep iteration
\* terminates its loop.
C9_SweepLoopSurvives == pc["bg"] # "dead"

\* Thread t is inside a store operation: it has begun a get, set or
\* clear_expired and not finished it.
InStoreOp(t) ==
    pc[t] \in {"ce_scan", "ce_del", "get_read", "get_move", "set_pop", "set_store", "set_move"}

\* C10: the two threads are never inside store operations at the same time.
C10_StoreOpsExclusive == ~(InStoreOp("req") /\ InStoreOp("bg"))

\* The start the call is to use, for a total of total entries.
Clamped(total, st) ==
    IF total = 0 \/ st < 0 THEN 0
    ELSE IF st > total - 1 THEN total - 1
    ELSE st

\* The call was made with total_count left out or equal to len(items).
TotalIsLen == ~total_count.given \/ total_count.val = Len(items)

\* C11: with totalCount = len(items), s the clamped start and
\* e = min(s + 5, totalCount), the call returns the items s..e-1 in their
\* order, start = s, count = e - s and totalCount = len(items).
C11_PageIsSlice ==
    (page.returned /\ TotalIsLen) =>
        LET total == Len(items)
            s == Clamped(total, start)
            e == IF s + 5 < total THEN s + 5 ELSE total
        IN /\ page.items = [i \in 1..(e - s) |-> items[s + i]]
           /\ page.start = s
           /\ page.count = e - s
           /\ page.totalCount = total

\* 24 items at start 20: items 20..23, count 4.
C11_Witness ==
    /\ page.returned
    /\ items = Range(24)
    /\ start = 20
    /\ page.items = <<20, 21, 22, 23>>
    /\ page.count = 4
    /\ page.totalCount = 24

\* C12: the start used is the requested start clamped into
\* [0, max(totalCount - 1, 0)]: a negative start gives 0, a start at or
\* beyond totalCount gives totalCount - 1, and on an empty input every start
\* gives 0 with an empty page.
C12_StartClamped ==
    page.returned =>
        LET total == page.totalCount
        IN /\ 0 <= page.start /\ page.start <= Max(total - 1, 0)
           /\ start < 0 => page.start = 0
           /\ (total > 0 /\ start >= total) => page.start = total - 1
           /\ (0 <= start /\ start < total) => page.start = start
           /\ (items = <<>> /\ TotalIsLen) =>
                  (page.start = 0 /\ page.items = <<>> /\ page.count = 0)

\* A start beyond the end of a list of 10 gives the page of the last item.
C12_Witness ==
    /\ page.returned
    /\ items = Range(10)
    /\ start > 10
    /\ page.start = 9
    /\ page.items = <<9>>

\* C13: hasMore is true exactly when end < totalCount; nextStart is end
\* (= start + count) when hasMore is true and None exactly when it is false.
C13_HasMoreNextStart ==
    page.returned =>
        LET end == page.start + page.count
        IN /\ page.hasMore <=> end < page.totalCount
           /\ page.hasMore => (~page.nextStart.none /\ page.nextStart.val = end)
           /\ page.nextStart.none <=> ~page.hasMore

\* 24 items at start 0: hasMore, nextStart 5.
C13_Witness ==
    /\ page.returned
    /\ items = Range(24)
    /\ start = 0
    /\ page.hasMore
    /\ page.nextStart = PyInt(5)

\* The set calls made so far had pairwise different keys.
DistinctKeys == \A i, j \in 1..Len(calls) : calls[i] = calls[j] => i = j

\* C15 as stated: after N > max_size set calls on an initially empty store
\* the store holds max_size entries.
C15_FullAfterMoreSets == Len(calls) > max_size => Len(cache) = max_size

\* C15 amended: after N > max_size set calls with pairwise different keys on
\* an initially empty store the store holds max_size entries.
C15_FullAfterDistinctSets ==
    (Len(calls) > max_size /\ DistinctKeys) => Len(cache) = max_size

\* Three sets of different keys on a store of max_size 2 have left two entries.
C15_Witness ==
    /\ max_size = 2
    /\ Len(calls) = 3
    /\ DistinctKeys
    /\ Keys(cache) = {calls[2], calls[3]}

\* The parameter names and values of a querystring, whatever their order.
ParamSet(qs) == {qs[i] : i \in 1..Len(qs)}

\* C16: two requests with the same URL and the same parameter names and
\* values get the same cache key, in whatever order the parameters come.
C16_KeyOrderIndependent ==
    (cache_key # <<>> /\ asked[1].url = asked[2].url
        /\ ParamSet(asked[1].qs) = ParamSet(asked[2].qs))
    => cache_key[1] = cache_key[2]

\* C17: a call is served from the store only an entry younger than
\* expiry_seconds: an older one is treated as absent.
C17_ExpiredTreatedAbsent ==
    (pc["req"] = "done" /\ req.hit) => req.got_age < expiry_seconds

\* c without the entry of key k, the others in c's order.
Without(c, k) == SelectSeq(c, LAMBDA e : e.key # k)

\* Every entry that the step keeps under a key other than k keeps its
\* timestamp and its value.
EntriesKept(k) ==
    \A e \in Entries(cache), f \in Entries(cache') :
        (e.key = f.key /\ e.key # k) => f = e

\* A step of the request thread inside get.
GetStep == pc["req"] \in {"get_in", "get_read", "get_move"} /\ pc'["req"] # pc["req"]

\* The step of set that writes self.cache[key].
StoreStep == pc["req"] = "set_store" /\ pc'["req"] = "set_move"

\* C18: a stored entry's timestamp changes only when set writes its key:
\* never in a step of get or clear_expired, nor in any other step; and a
\* step of get changes nothing in the store but the position of its key.
C18_TimestampOnlyBySet ==
    [][/\ Tick \/ (IF StoreStep THEN EntriesKept(req.key) ELSE EntriesKept(<<>>))
       /\ GetStep => /\ Entries(cache') = Entries(cache)
                     /\ Without(cache', req'.key) = Without(cache, req'.key)]_vars

\* A call was served an entry a clock unit short of expiry_seconds; the entry
\* is now the most recently used one and has the age it had.
C18_Witness ==
    /\ pc["req"] = "done"
    /\ req.hit
    /\ req.got_age = expiry_seconds - 1
    /\ cache[Len(cache)].key = req.key
    /\ cache[Len(cache)].age = req.got_age
    /\ Len(cache) = 2

\* A step of the request thread up to the end of its lookup: the lazy
\* cleanup and get.
LookupStep ==
    /\ pc["req"] \in {"cleanup", "ce_scan", "ce_del", "get_in", "get_read", "get_move"}
    /\ \/ pc'["req"] # pc["req"]
       \/ sw'["req"].expired # sw["req"].expired
       \/ sw'["req"].pos # sw["req"].pos

\* C19 as stated: the step that serves a call from the store leaves the
\* store as it was.
C19_HitChangesNothing ==
    [][(pc["req"] = "get_move" /\ pc'["req"] = "done") => cache' = cache]_vars

\* C19 amended: up to and including the step that serves it from the store,
\* a call adds no entry and changes no stored value or timestamp: each step
\* leaves the store alone, or moves the key it looked up to the most recently
\* used position, or (lazy cleanup) removes one entry of age expiry_seconds
\* or more; and last_cache_cleanup is written only when the lazy cleanup
\* returns.
C19_HitOnlyPromotes ==
    [][LookupStep =>
        /\ \/ cache' = cache
           \/ /\ pc["req"] = "get_move"
              /\ Entries(cache') = Entries(cache)
              /\ Without(cache', req.key) = Without(cache, req.key)
              /\ cache'[Len(cache')].key = req.key
           \/ /\ pc["req"] = "ce_del"
              /\ \E e \in Entries(cache) :
                    e.age >= expiry_seconds /\ cache' = Without(cache, e.key)
        /\ cleanup_age' # cleanup_age =>
              (pc["req"] = "ce_del" /\ pc'["req"] = "get_in" /\ cleanup_age' = 0)]_vars

\* A call was served the older of two entries, which now stands behind the
\* younger one, after its lazy cleanup had run.
C19_Witness ==
    /\ pc["req"] = "done"
    /\ req.hit
    /\ cleanup_age = 0
    /\ Len(cache) = 2
    /\ cache[2].key = req.key
    /\ cache[2].age > cache[1].age

\* C20: when the request supplies a credential the upstream call is made and
\* carries it, whatever the environment holds; the environment's credential
\* is carried when the request supplies none.
C20_PerRequestPrecedence ==
    /\ (req.per_req # "" /\ (req.called \/ MissingCredential))
          => (req.called /\ req.api_key = req.per_req)
    /\ (req.called /\ req.per_req = "") => req.api_key = env_key

\* What a clear_expired raises when another thread changes the store under it.
SweepErrors == {PyStr("OrderedDict mutated during iteration"), PyStr("expired key")}

\* C21: no dispatcher call ends with an exception that an expiry sweep
\* raised, whether the background sweep and the lazy one interleave or not.
C21_SweepFailuresContained == req.result.value \notin SweepErrors

\* C22: a set(k) on a store of fewer than max_size entries removes no stored
\* entry; on a store of max_size entries it removes exactly one, the least
\* recently used; it never removes two.  (The entry of k itself is the one
\* the call writes.)
C22_SetEvictsAtMostOne ==
    [][\A k \in StoreKeys :
          calls' = Append(calls, k) =>
              /\ Cardinality(Keys(cache) \ Keys(cache')) <= 1
              /\ Len(cache) < max_size => Without(cache', k) = Without(cache, k)
              /\ Len(cache) = max_size =>
                    Without(cache', k) = Without(Without(cache, LeastRecentlyUsed), k)]_vars

\* max_size = 2; set(a); set(b); get(a); set(c): b, the least recently used,
\* was evicted and a, stored before b, is kept.
C22_Witness ==
    /\ max_size = 2
    /\ calls = << <<"a">>, <<"b">>, <<"c">> >>
    /\ uses = << <<"a">>, <<"c">> >>
    /\ Len(cache) = 2
    /\ cache[1].key = <<"a">>
    /\ cache[2].key = <<"c">>

\* C23: set(k) for a key k the store holds, on a store of max_size entries,
\* still evicts the least recently used entry before it writes k: when that
\* is another key the store ends with max_size - 1 entries, that key gone
\* and k kept; when it is k itself the store ends with max_size entries.
C23_SetOfStoredKeyEvicts ==
    [][\A k \in Keys(cache) :
          (calls' = Append(calls, k) /\ Len(cache) = max_size) =>
              IF LeastRecentlyUsed = k
              THEN Len(cache') = max_size /\ Keys(cache') = Keys(cache)
              ELSE /\ Len(cache') = max_size - 1
                   /\ Keys(cache') = Keys(cache) \ {LeastRecentlyUsed}]_vars

\* max_size = 2; set(a); set(b); set(b): a was evicted and the store holds
\* one entry.
C23_Witness ==
    /\ max_size = 2
    /\ calls = << <<"a">>, <<"b">>, <<"b">> >>
    /\ uses = << <<"b">> >>
    /\ Len(cache) = 1
    /\ cache[1].key = <<"b">>

\* The request thread's step out of the test of cleanup_if_needed.
CleanupTest == pc["req"] = "cleanup" /\ pc'["req"] # "cleanup"

\* The lazy cleanup tests now - last_cache_cleanup > cleanup_interval,
\* strictly, and a cleanup that is not due changes neither the store nor
\* last_cache_cleanup.
LazyTestStrict ==
    [][CleanupTest =>
          /\ pc'["req"] \in {"ce_scan", "ce_del"} <=> cleanup_age > cleanup_interval
          /\ cache' = cache
          /\ cleanup_age' = cleanup_age]_vars

\* C24: cleanup_if_needed sweeps exactly when now - last_cache_cleanup >
\* cleanup_interval, and the cleanup that sweeps ends with last_cache_cleanup
\* set to now; one that does not sweep changes neither the store nor
\* last_cache_cleanup.
C24_LazyCleanupExact ==
    [][/\ CleanupTest =>
             /\ pc'["req"] \in {"ce_scan", "ce_del"} <=> cleanup_age > cleanup_interval
             /\ cache' = cache
             /\ cleanup_age' = cleanup_age
       /\ EndsSweep("req") => cleanup_age' = 0]_vars

\* How far a dispatcher call has come: lazy cleanup, lookup, credential,
\* upstream call, set, end.
Phase(p) ==
    IF p \in {"cleanup", "ce_scan", "ce_del"} THEN 1
    ELSE IF p \in {"get_in", "get_read", "get_move"} THEN 2
    ELSE IF p = "cred" THEN 3
    ELSE IF p = "http" THEN 4
    ELSE IF p \in {"set_len", "set_pop", "set_store", "set_move"} THEN 5
    ELSE IF p \in {"done", "raised"} THEN 6
    ELSE 0

\* A step of the sweep thread inside its clear_expired.
BgSweepStep ==
    /\ pc["bg"] \in {"ce_scan", "ce_del"}
    /\ \/ pc'["bg"] # pc["bg"]
       \/ sw'["bg"].expired # sw["bg"].expired
       \/ sw'["bg"].pos # sw["bg"].pos

\* C26: a call goes through lazy cleanup, lookup, credential, upstream call
\* and set in that order, never back; it is in set only after its upstream
\* call returned successfully; and while the upstream call is in flight the
\* store changes only by the passing of time and by steps of the sweep
\* thread, never by the request thread.
C26_StoreUntouchedInFlight ==
    [][/\ pc'["req"] # "idle" => Phase(pc'["req"]) >= Phase(pc["req"])
       /\ Phase(pc'["req"]) = 4 => Phase(pc["req"]) \in {3, 4}
       /\ Phase(pc'["req"]) = 5 => (req'.called /\ req'.upstream = "ok" /\ Phase(pc["req"]) \in {4, 5})
       /\ (pc["req"] = "http" /\ cache' # cache) => (Tick \/ BgSweepStep)
       /\ (pc["req"] = "http" /\ pc'["req"] # "http") => cache' = cache]_vars

\* An upstream call is in flight and the sweep thread, in the middle of its
\* clear_expired, has deleted one expired entry and is about to delete the next.
C26_Witness ==
    /\ pc["req"] = "http"
    /\ pc["bg"] = "ce_del"
    /\ sw["bg"].clean
    /\ Len(cache) < Len(sw["bg"].start)
    /\ sw["bg"].expired # <<>>
    /\ Contains(cache, Head(sw["bg"].expired))

\* C27: whatever cleanup interval the manager is built with, one day or more
\* included, the sweep thread sleeps that interval between two sweeps.
C27_SleepsWholeInterval == pc["bg"] = "sleep" => sleep_left = interval

\* The call has ended and the tool has its answer.
Ended == pc["req"] \in {"done", "raised"}

\* C28: when the upstream call fails (transport error, timeout, non-2xx
\* status, body that is not JSON) the tool call raises: the tool is never
\* handed a value that it paginates or serializes as a payload.
C28_UpstreamFailureRaises ==
    (Ended /\ req.upstream = "failed") => ToolReply(req.result).kind = "raise"

\* C29: when upstream answers with a well-formed empty result, the tool
\* returns its unable-to-fetch / not-found text and raises nothing.
C29_EmptyResultGivesText ==
    (Ended /\ req.upstream = "ok" /\ ~Truthy(req.data))
        => ToolReply(req.result) = Return(UnableText)

\* A call whose upstream answered [] has ended without another thread's
\* interference in its set, and the tool answers with the text.
EmptyResultTextSeen ==
    /\ pc["req"] = "done"
    /\ req.upstream = "ok"
    /\ req.data = PyList(0, "[]")
    /\ req.result = Return(req.data)
    /\ ToolReply(req.result) = Return(UnableText)

\* C30: two requests that differ in their URL or in a parameter name or
\* value get different cache keys.
C30_KeysInjective ==
    (cache_key # <<>> /\ asked[1] # asked[2]) => cache_key[1] # cache_key[2]

\* Two requests that differ only in the type of one value, the str '5' and
\* the int 5, have got different keys.
C30_Witness ==
    /\ cache_key # <<>>
    /\ asked[1].url = asked[2].url
    /\ Len(asked[1].qs) = 1
    /\ Len(asked[2].qs) = 1
    /\ asked[1].qs[1].name = asked[2].qs[1].name
    /\ asked[1].qs[1].val = [type |-> "str", text |-> <<"5">>]
    /\ asked[2].qs[1].val = [type |-> "int", text |-> <<"5">>]
    /\ cache_key[1] # cache_key[2]

\* Thread t's clear_expired executes its del self.cache[key].
SweepDeletes(t) ==
    /\ pc[t] = "ce_del"
    /\ sw[t].expired # <<>>
    /\ sw'[t].expired = Tail(sw[t].expired)
    /\ Keys(cache') # Keys(cache)

\* C31: a sweep removes only entries whose age has reached the lifetime at the
\* moment of removal; a key set again between the sweep's scan and its
\* deletion keeps its fresh entry.
C31_SweepRemovesOnlyExpired ==
    [][\A t \in Threads : SweepDeletes(t) =>
          \A e \in Entries(cache) :
              e.key \notin Keys(cache') => e.age >= expiry_seconds]_vars

\* C32: every stored entry holds what upstream returned for the request of its
\* key, and a hit returns the payload of the request that was asked: never
\* the payload of another key, never an error value.
C32_HitReturnsOwnPayload ==
    /\ \A e \in Entries(cache) :
          \E r \in Requests : /\ e.key = CacheKey(r.url, r.qs)
                              /\ e.data = Body(r.url, r.qs)
    /\ (pc["req"] = "done" /\ req.hit)
          => /\ req.result = Return(Body(req.url, req.qs))
             /\ req.upstream = ""

C32_Witness ==
    /\ pc["req"] = "done"
    /\ req.hit
    /\ req.key = KeyY
    /\ Keys(cache) = {KeyTop, KeyY}
    /\ req.result = Return(PyList(1, "y"))

\* C33: the result of a lookup does not depend on the caller's credential.  A
\* truthy payload found under the key of (url, params) is returned as it was
\* stored, whatever credential the caller's request carries, and the
\* credential is never looked up.
C33_HitIgnoresCredential ==
    (/\ req.found
     /\ Truthy(req.cached_data)
     /\ pc["req"] \notin {"get_read", "get_move", "raised"})
        => /\ pc["req"] = "done"
           /\ req.hit
           /\ req.result = Return(req.cached_data)
           /\ ~req.called
           /\ req.api_key = ""

\* A caller with no credential at all is served what another caller's
\* credential fetched.
C33_Witness ==
    /\ variant = "package"
    /\ env_key = ""
    /\ pc["req"] = "done"
    /\ req.hit
    /\ req.per_req = ""
    /\ req.result = Return(PyList(2, "top"))

\* ------------------------------------------- the sweep thread keeps running
\* One clock unit passes, the sweep thread waking when its sleep is over:
\* time.sleep returns before the clock has advanced further.
TickTimely ==
    /\ pc["bg"] = "sleep" => sleep_left > 0
    /\ Tick

\* The steps of the sweep thread.
BgStep ==
    \/ BgWake
    \/ CeScanNext("bg")
    \/ CeScanMutated("bg")
    \/ CeDelItem("bg")
    \/ CeDelMissing("bg")
    \/ CeReturn("bg")

\* The steps of a make_imdb_request call that has begun.
ReqStep ==
    \/ CleanupIfNeeded
    \/ GetIn
    \/ GetRead
    \/ GetKeyError
    \/ GetMove
    \/ Credential
    \/ HttpReturn
    \/ SetLen
    \/ SetPop
    \/ SetPopEmpty
    \/ SetStore
    \/ SetMove
    \/ SetMoveMissing
    \/ Finish
    \/ CeScanNext("req")
    \/ CeScanMutated("req")
    \/ CeDelItem("req")
    \/ CeDelMissing("req")
    \/ CeReturn("req")

LiveNext ==
    \/ StartRequest
    \/ ReqStep
    \/ BgStep
    \/ TickTimely

\* Both threads are scheduled, requests.get returns (timeout=10), and time
\* advances.
\* The src/src server over stdio, started with its key in the environment.
LiveInit ==
    /\ Init
    /\ variant = "modular"
    /\ env_key # ""

LiveSpec ==
    /\ LiveInit
    /\ [][LiveNext]_vars
    /\ WF_vars(BgStep)
    /\ WF_vars(ReqStep)
    /\ SF_vars(TickTimely)

\* The entry of key k has been in the store for a clock unit or more.
Aged(k) == Contains(cache, k) /\ Entry(cache, k).age >= 1

\* The entry of key k is gone: deleted, or overwritten by a later set.
Gone(k) == ~Contains(cache, k) \/ Entry(cache, k).age = 0

\* C34: while the sweep thread runs and time advances, no entry stays in the
\* store once its age has reached expiry_seconds + cleanup_interval, and every
\* entry is eventually removed, however often it is read in the meantime.
C34_EntriesEventuallyRemoved ==
    /\ [](pc["bg"] # "dead" =>
            \A e \in Entries(cache) : e.age < expiry_seconds + cleanup_interval)
    /\ \A k \in {KeyTop, KeyX, KeyY} :
          Aged(k) ~> (Gone(k) \/ pc["bg"] = "dead")

\* A request has just been served the entry from the store and the sweep
\* thread has then deleted it.
C34_Witness ==
    /\ pc["req"] = "done"
    /\ req.hit
    /\ req.key = KeyTop
    /\ req.got_age >= expiry_seconds
    /\ ~Contains(cache, KeyTop)
    /\ pc["bg"] = "ce_del"
    /\ sw["bg"].expired = <<>>

\* ceil(n / 5) pages, one for an empty sequence.
PagesOf(n) == IF n = 0 THEN 1 ELSE (n + page_size - 1) \div page_size

\* C35: a walk from start = 0 along the returned nextStart ends with
\* nextStart = None after ceil(n / 5) calls (one call for n = 0), and the
\* pages put end to end are the input sequence: every item once, in order.
C35_WalkCoversSequence ==
    /\ walk.calls <= PagesOf(Len(items))
    /\ walk.got = SubSeq(items, 1, Len(walk.got))
    /\ (page.returned /\ page.nextStart.none)
          => /\ walk.calls = PagesOf(Len(items))
             /\ walk.got = items
    /\ (page.returned /\ ~page.nextStart.none)
          => /\ walk.calls < PagesOf(Len(items))
             /\ page.nextStart.val = Len(walk.got)

C35_Witness ==
    /\ Len(items) = 12
    /\ walk.calls = 3
    /\ page.nextStart.none
    /\ page.items = <<10, 11>>
    /\ walk.got = items

\* C36: for every call, also one that passes a total_count other than
\* len(items), count is the number of items returned, between 0 and 5.
C36_CountIsItemsReturned ==
    page.returned => /\ page.count = Len(page.items)
                     /\ 0 <= page.count
                     /\ page.count <= page_size

\* The same for the calls whose total_count is len(items).
C36_CountWhenTotalIsLen ==
    (page.returned /\ TotalIsLen) => /\ page.count = Len(page.items)
                                     /\ 0 <= page.count
                                     /\ page.count <= page_size

\* C37: with total_count >= 1 no start, negative, in range or beyond the end,
\* gives an empty page: count is between 1 and 5; a start at or beyond the end
\* gives the page of the last item alone, with hasMore false.  The items are
\* compared where total_count is len(items).
C37_PageNeverEmpty ==
    (page.returned /\ page.totalCount >= 1)
        => /\ 1 <= page.count
           /\ page.count <= page_size
           /\ TotalIsLen => Len(page.items) = page.count
           /\ start >= page.totalCount
                => /\ page.start = page.totalCount - 1
                   /\ page.count = 1
                   /\ ~page.hasMore
                   /\ page.nextStart.none
                   /\ TotalIsLen => page.items = <<items[Len(items)]>>

C37_Witness ==
    /\ Len(items) = 7
    /\ TotalIsLen
    /\ start = 9
    /\ page.returned
    /\ page.items = <<6>>
    /\ page.count = 1
    /\ ~page.hasMore

\* cleanup_if_needed assigns last_cache_cleanup = datetime.now().
LazySweepReturns ==
    /\ pc["req"] = "ce_del"
    /\ pc'["req"] = "get_in"
    /\ cleanup_age' = 0

\* C38: last_cache_cleanup never goes back and only cleanup_if_needed writes
\* it: the time since it grows with the clock alone, a step of the sweep
\* thread leaves it as it is, and so a request arriving more than
\* cleanup_interval after the last lazy sweep starts a lazy sweep, whether or
\* not the sweep thread has swept in between.
C38_LastCleanupOnlyLazy ==
    [][/\ cleanup_age' # cleanup_age
            => \/ LazySweepReturns
               \/ Tick /\ cleanup_age' = cleanup_age + 1
       /\ pc'["bg"] # pc["bg"] => cleanup_age' = cleanup_age
       /\ sw'["bg"] # sw["bg"] => cleanup_age' = cleanup_age
       /\ (CleanupTest /\ cleanup_age > cleanup_interval)
            => pc'["req"] \in {"ce_scan", "ce_del"}]_vars

\* The sweep thread has completed a sweep since the last lazy sweep, more than
\* cleanup_interval ago, and the request that arrives starts a lazy sweep.
C38_Witness ==
    /\ pc["req"] = "ce_scan"
    /\ pc["bg"] = "sleep"
    /\ sleep_left = TimedeltaSeconds(cleanup_interval)
    /\ cleanup_age > cleanup_interval

====
